---- MODULE Spec2Model ----
(***************************************************************************)
(* Model of the curriculum-designer repository: the MCP server            *)
(* (src/mcp-server/index.js, class CurriculumMCPServer) that reads the     *)
(* Trello board, parses the cards and answers tool calls, and the importer *)
(* (same file, class TrelloImporter) that writes formatted cards to the    *)
(* board and reformats the existing ones.                                  *)
(*                                                                         *)
(* Card titles and descriptions are strings; the regular expressions of    *)
(* the source are modelled character by character.                         *)
(***************************************************************************)
EXTENDS Integers, Sequences, FiniteSets, TLC

(***************************************************************************)
(* JavaScript strings and numbers                                          *)
(***************************************************************************)

\* B applied to the value of v: v is evaluated once, however often B uses it
With(v, B(_)) == CHOOSE r \in {B(y) : y \in {v}} : TRUE

\* s.charAt(i - 1): the i-th character of s as a string, "" outside s.
Ch(s, i) == IF i >= 1 /\ i <= Len(s) THEN SubSeq(s, i, i) ELSE ""

\* s.substring(a - 1, b), clamped to s
Sub(s, a, b) ==
    IF a > b \/ a > Len(s) \/ b < 1 THEN ""
    ELSE SubSeq(s, IF a < 1 THEN 1 ELSE a, IF b > Len(s) THEN Len(s) ELSE b)

Digits == "0123456789"
UpperCase == "ABCDEFGHIJKLMNOPQRSTUVWXYZ"
LowerCase == "abcdefghijklmnopqrstuvwxyz"

\* the characters of a string, as a set
CharsOf(s) == {SubSeq(s, k, k) : k \in 1..Len(s)}
\* regular expression class \d
DigitChars == CharsOf(Digits)
\* regular expression class \w
WordChars == CharsOf(Digits) \cup CharsOf(UpperCase) \cup CharsOf(LowerCase) \cup {"_"}
\* regular expression class \s
SpaceChars == {" ", "\n", "\t"}
\* regular expression class [:\s]
ColonSpaceChars == SpaceChars \cup {":"}

\* the least k in lo..hi with P(k), 0 when there is none
FirstIndex(lo, hi, P(_)) ==
    IF \E k \in lo..hi : P(k)
    THEN CHOOSE k \in lo..hi : P(k) /\ \A j \in lo..(k - 1) : ~P(j)
    ELSE 0

\* the last index of the longest run of characters of the class chars that
\* starts at index i of s (i - 1 when the run is empty): a greedy [chars]*
RunEnd(s, i, chars) ==
    With(FirstIndex(i, Len(s), LAMBDA k : SubSeq(s, k, k) \notin chars),
         LAMBDA stop : IF stop = 0 THEN Len(s) ELSE stop - 1)

\* String.prototype.indexOf(sub, from - 1) + 1: 0 when sub does not occur
IndexOf(s, sub, from) ==
    FirstIndex(from, Len(s) - Len(sub) + 1, LAMBDA k : SubSeq(s, k, k + Len(sub) - 1) = sub)

\* String.prototype.includes
Includes(s, sub) == \E k \in 1..(Len(s) - Len(sub) + 1) : SubSeq(s, k, k + Len(sub) - 1) = sub

\* the lower-case letter of each upper-case letter
LowerOf ==
    [c \in CharsOf(UpperCase) |->
        CHOOSE l \in CharsOf(LowerCase) :
            \E k \in 1..Len(UpperCase) : SubSeq(UpperCase, k, k) = c /\ SubSeq(LowerCase, k, k) = l]

LowerChar(c) == IF c \in DOMAIN LowerOf THEN LowerOf[c] ELSE c

RECURSIVE ToLowerCase(_)
\* String.prototype.toLowerCase
ToLowerCase(s) ==
    IF Len(s) <= 1 THEN LowerChar(s)
    ELSE ToLowerCase(SubSeq(s, 1, Len(s) \div 2))
         \o ToLowerCase(SubSeq(s, (Len(s) \div 2) + 1, Len(s)))

\* String.prototype.trim
Trim(s) ==
    With(FirstIndex(1, Len(s), LAMBDA k : SubSeq(s, k, k) \notin SpaceChars),
         LAMBDA first :
            IF first = 0 THEN ""
            ELSE SubSeq(s, first,
                        CHOOSE k \in first..Len(s) :
                            /\ SubSeq(s, k, k) \notin SpaceChars
                            /\ \A j \in (k + 1)..Len(s) : SubSeq(s, j, j) \in SpaceChars))

\* the value of the decimal digit c
DigitValue(c) == CHOOSE d \in 0..9 : SubSeq(Digits, d + 1, d + 1) = c

RECURSIVE DigitsValue(_)
\* the value of a string of decimal digits
DigitsValue(s) ==
    IF s = "" THEN 0
    ELSE 10 * DigitsValue(SubSeq(s, 1, Len(s) - 1)) + DigitValue(SubSeq(s, Len(s), Len(s)))

\* A JavaScript number that may be NaN.
NaN == [nan |-> TRUE, val |-> 0]
Num(n) == [nan |-> FALSE, val |-> n]

\* parseInt(s) of a string: leading white space, an optional sign, then the
\* longest run of decimal digits; NaN when there is no digit.
ParseIntString(s) ==
    LET sign == Ch(s, RunEnd(s, 1, SpaceChars) + 1)
        from == RunEnd(s, 1, SpaceChars) + (IF sign \in {"-", "+"} THEN 2 ELSE 1)
    IN  With(RunEnd(s, from, DigitChars),
             LAMBDA to :
                IF to < from THEN NaN
                ELSE Num((IF sign = "-" THEN -1 ELSE 1) * DigitsValue(SubSeq(s, from, to))))

RECURSIVE NatToString(_)
NatToString(n) ==
    IF n < 10 THEN Ch(Digits, n + 1)
    ELSE NatToString(n \div 10) \o Ch(Digits, (n % 10) + 1)

\* the text a template literal gives a number: `${n}`
NumberToString(n) == IF n < 0 THEN "-" \o NatToString(-n) ELSE NatToString(n)

RECURSIVE Join(_, _)
\* Array.prototype.join
Join(seq, sep) ==
    IF seq = <<>> THEN ""
    ELSE IF Len(seq) = 1 THEN seq[1]
    ELSE seq[1] \o sep \o Join(Tail(seq), sep)

\* a || b on strings: the empty string is falsy
OrElse(a, b) == IF a = "" THEN b ELSE a

(***************************************************************************)
(* CurriculumMCPServer.parseCardData                                       *)
(***************************************************************************)

NoMatch == [found |-> FALSE]

\* the match of /\[(\w+):\s*([^\]]+)\]/ whose "[" is at index i of s, whose
\* \w+ ends at index w and whose "]" is at index close. \s* is greedy but
\* gives its last character back when nothing else is left for [^\]]+.
FieldMatch(s, i, w, close) ==
    With(RunEnd(s, w + 2, SpaceChars),
         LAMBDA sp :
            [found |-> TRUE,
             key   |-> SubSeq(s, i + 1, w),
             value |-> SubSeq(s, IF sp + 1 < close THEN sp + 1 ELSE close - 1, close - 1),
             last  |-> close])

\* /\[(\w+):\s*([^\]]+)\]/ matched with its "[" at index i of s. \w+ is the
\* whole run of word characters and must be followed by ":"; [^\]]+ is not
\* empty and runs to the next "]", which must exist.
FieldMatchAt(s, i) ==
    IF Ch(s, i) # "[" THEN NoMatch
    ELSE With(RunEnd(s, i + 1, WordChars),
              LAMBDA w :
                 IF w = i \/ Ch(s, w + 1) # ":" THEN NoMatch
                 ELSE With(IndexOf(s, "]", w + 2),
                           LAMBDA close :
                              IF close > w + 2 THEN FieldMatch(s, i, w, close) ELSE NoMatch))

\* regex.exec(s) with regex.lastIndex = from - 1: the leftmost match
FieldExec(s, from) ==
    With(FirstIndex(from, Len(s), LAMBDA i : FieldMatchAt(s, i).found),
         LAMBDA i : IF i = 0 THEN NoMatch ELSE FieldMatchAt(s, i))

\* data[key] = value
Put(data, key, value) ==
    [k \in (DOMAIN data) \cup {key} |-> IF k = key THEN value ELSE data[k]]

RECURSIVE ExecLoop(_, _, _)
\* while ((match = regex.exec(card.desc)) !== null) data[...] = match[2]
ExecLoop(s, from, data) ==
    With(FieldExec(s, from),
         LAMBDA m :
            IF ~m.found THEN data
            ELSE With(Put(data, ToLowerCase(m.key), m.value),
                      LAMBDA d : ExecLoop(s, m.last + 1, d)))

\* data.key || dflt
Field(data, key, dflt) == IF key \in DOMAIN data THEN OrElse(data[key], dflt) ELSE dflt

DefaultDuration == 20

\* parseInt(data.duration) || 20: NaN and 0 are falsy
ParsedDuration(data) ==
    With(IF "duration" \in DOMAIN data THEN ParseIntString(data["duration"]) ELSE NaN,
         LAMBDA n : IF n.nan \/ n.val = 0 THEN DefaultDuration ELSE n.val)

\* the object parseCardData returns for the fields data found
ParsedFields(data) ==
    [level     |-> Field(data, "level", "intermediate"),
     duration  |-> ParsedDuration(data),
     category  |-> Field(data, "category", "general"),
     materials |-> Field(data, "materials", "")]

\* card.desc is a string: false for a card fetched without a description
HasDesc(card) == "desc" \in DOMAIN card

\* the string regex.exec(card.desc) searches: exec converts its argument to a
\* string, and undefined to "undefined"
DescString(card) == IF HasDesc(card) THEN card.desc ELSE "undefined"

parseCardData(card) ==
    With(ExecLoop(DescString(card), 1, <<>>), LAMBDA data : ParsedFields(data))

(***************************************************************************)
(* TrelloImporter.parseUnstructuredCard                                    *)
(***************************************************************************)

\* card.name.match(/(\d+)\s*min/i): the leftmost run of digits that is
\* followed, after optional white space, by "min" in any case; its group 1.
DurationMatch(name) ==
    LET MinAfter(i) ==
            ToLowerCase(Sub(name, RunEnd(name, RunEnd(name, i, DigitChars) + 1, SpaceChars) + 1,
                            RunEnd(name, RunEnd(name, i, DigitChars) + 1, SpaceChars) + 3))
            = "min"
    IN  With(FirstIndex(1, Len(name),
                        LAMBDA i : SubSeq(name, i, i) \in DigitChars /\ MinAfter(i)),
             LAMBDA i :
                IF i = 0 THEN NoMatch
                ELSE [found |-> TRUE, value |-> SubSeq(name, i, RunEnd(name, i, DigitChars))])

\* Object.entries(categoryKeywords), in insertion order
categoryKeywords ==
    << <<"Grammar",  {"grammar", "tense", "conditional", "passive"}>>,
       <<"Speaking", {"speaking", "conversation", "roleplay", "discussion"}>>,
       <<"Writing",  {"writing", "essay", "email", "letter"}>>,
       <<"Business", {"business", "negotiation", "presentation", "meeting"}>> >>

\* the for loop over the keyword families: the first family one of whose
\* keywords the lowercased title includes, else the initial 'General'
DetectCategory(name) ==
    With(ToLowerCase(name),
         LAMBDA lower :
            With(FirstIndex(1, Len(categoryKeywords),
                            LAMBDA k : \E kw \in categoryKeywords[k][2] : Includes(lower, kw)),
                 LAMBDA k : IF k = 0 THEN "General" ELSE categoryKeywords[k][1]))

\* card.desc.match(/level[:\s]+(\w+)/i): group 1 of the leftmost match
LevelMatch(desc) ==
    LET Sep(i) == RunEnd(desc, i + 5, ColonSpaceChars)
    IN  With(FirstIndex(1, Len(desc),
                        LAMBDA i : /\ SubSeq(desc, i, i) \in {"l", "L"}
                                   /\ ToLowerCase(Sub(desc, i, i + 4)) = "level"
                                   /\ Sep(i) >= i + 5
                                   /\ Ch(desc, Sep(i) + 1) \in WordChars),
             LAMBDA i :
                IF i = 0 THEN NoMatch
                ELSE With(Sep(i),
                          LAMBDA c : [found |-> TRUE,
                                      value |-> SubSeq(desc, c + 1,
                                                       RunEnd(desc, c + 1, WordChars))]))

\* card.desc.match(/objectives?[:\s]+(.*?)(?:\n\n|$)/is): group 1 of the
\* leftmost match, the text up to the first blank line or the end
ObjectivesMatch(desc) ==
    LET From(i) == IF Ch(desc, i + 9) \in {"s", "S"} THEN i + 10 ELSE i + 9
        Sep(i)  == RunEnd(desc, From(i), ColonSpaceChars)
    IN  With(FirstIndex(1, Len(desc),
                        LAMBDA i : /\ SubSeq(desc, i, i) \in {"o", "O"}
                                   /\ ToLowerCase(Sub(desc, i, i + 8)) = "objective"
                                   /\ Sep(i) >= From(i)),
             LAMBDA i :
                IF i = 0 THEN NoMatch
                ELSE With(Sep(i),
                          LAMBDA c :
                             With(IndexOf(desc, "\n\n", c + 1),
                                  LAMBDA blank :
                                     [found |-> TRUE,
                                      value |-> Sub(desc, c + 1,
                                                    IF blank = 0 THEN Len(desc)
                                                    ELSE blank - 1)])))

\* the separators of split(/[\n\-...]/); the bullet characters of the source
\* lie outside the ASCII alphabet of the model
BulletSeparators == {"\n", "-"}

RECURSIVE SplitBullets(_)
\* s.split(/[\n\-...]/)
SplitBullets(s) ==
    With(FirstIndex(1, Len(s), LAMBDA k : SubSeq(s, k, k) \in BulletSeparators),
         LAMBDA k :
            IF k = 0 THEN <<s>>
            ELSE <<Sub(s, 1, k - 1)>> \o SplitBullets(Sub(s, k + 1, Len(s))))

\* .filter(o => o.trim()).map(o => o.trim())
TrimmedNonBlank(seq) ==
    LET NonBlank(x) == x # ""
    IN  SelectSeq([k \in DOMAIN seq |-> Trim(seq[k])], NonBlank)

\* card.desc || '': the description, '' when there is none
DescOrEmpty(card) == IF HasDesc(card) THEN card.desc ELSE ""

\* the activity parseUnstructuredCard builds from what the three matches found
UnstructuredActivity(card, durationMatch, levelMatch, objectivesMatch) ==
    [name         |-> card.name,
     duration     |-> IF durationMatch.found
                      THEN ParseIntString(durationMatch.value).val
                      ELSE DefaultDuration,
     category     |-> DetectCategory(card.name),
     level        |-> IF levelMatch.found THEN levelMatch.value ELSE "Intermediate",
     skills       |-> <<>>,
     objectives   |-> IF objectivesMatch.found
                      THEN TrimmedNonBlank(SplitBullets(objectivesMatch.value))
                      ELSE <<>>,
     instructions |-> DescOrEmpty(card),
     materials    |-> "",
     variations   |-> "",
     notes        |-> "",
     energy       |-> "",
     interaction  |-> "",
     professions  |-> <<>>]

parseUnstructuredCard(card) ==
    With(<<DurationMatch(card.name),
           IF DescOrEmpty(card) # "" THEN LevelMatch(card.desc) ELSE NoMatch,
           IF DescOrEmpty(card) # "" THEN ObjectivesMatch(card.desc) ELSE NoMatch>>,
         LAMBDA m : UnstructuredActivity(card, m[1], m[2], m[3]))

(***************************************************************************)
(* TrelloImporter.formatTitle, formatDescription                           *)
(***************************************************************************)

\* formatTitle, were the bracketed duration left out of the title
formatTitleBare(activity) ==
    activity.name \o " | " \o activity.category

formatTitle(activity) ==
    "[" \o NumberToString(activity.duration) \o "m] " \o activity.name
        \o " | " \o activity.category

\* objectives.map(obj => `- ${obj}`)
Bulleted(seq) == [k \in DOMAIN seq |-> "- " \o seq[k]]

formatDescription(activity) ==
    "LEVEL: " \o activity.level \o "\n"
    \o "DURATION: " \o NumberToString(activity.duration) \o "\n"
    \o "ENERGY: " \o OrElse(activity.energy, "Medium") \o "\n"
    \o "INTERACTION: " \o OrElse(activity.interaction, "Pairs") \o "\n"
    \o "SKILLS: " \o Join(activity.skills, ", ") \o "\n"
    \o "PROFESSION: " \o OrElse(Join(activity.professions, ", "), "General") \o "\n"
    \o "\n"
    \o "OBJECTIVES:\n"
    \o Join(Bulleted(activity.objectives), "\n") \o "\n"
    \o "\n"
    \o "MATERIALS:\n"
    \o OrElse(activity.materials, "- None required") \o "\n"
    \o "\n"
    \o "INSTRUCTIONS:\n"
    \o activity.instructions \o "\n"
    \o "\n"
    \o "VARIATIONS:\n"
    \o OrElse(activity.variations, "None yet") \o "\n"
    \o "\n"
    \o "NOTES:\n"
    \o OrElse(activity.notes, "No notes yet")

(***************************************************************************)
(* CurriculumMCPServer.getActivities, suggestLesson                        *)
(***************************************************************************)

\* an optional value: unset (undefined, null) or set
Unset == <<>>
Some(v) == <<v>>

\* an optional numeric argument of a tool call
Absent == [given |-> FALSE, val |-> 0]
Given(n) == [given |-> TRUE, val |-> n]
\* if (duration): undefined and 0 are falsy
Truthy(d) == d.given /\ d.val # 0

\* Activity, were the labels of the card kept as the tags of the activity
ActivityWithTags(card) ==
    With(parseCardData(card),
         LAMBDA parsed :
            IF HasDesc(card)
            THEN [id          |-> card.id,
                  name        |-> card.name,
                  description |-> card.desc,
                  level       |-> parsed.level,
                  duration    |-> parsed.duration,
                  category    |-> parsed.category,
                  materials   |-> parsed.materials,
                  listName    |-> card.list.name,
                  tags        |-> card.labels]
            ELSE [id          |-> card.id,
                  name        |-> card.name,
                  level       |-> parsed.level,
                  duration    |-> parsed.duration,
                  category    |-> parsed.category,
                  materials   |-> parsed.materials,
                  listName    |-> card.list.name,
                  tags        |-> card.labels])

\* the object cards.map builds from one card; description is undefined (the
\* record has no such field) when the card has no description
Activity(card) ==
    With(parseCardData(card),
         LAMBDA parsed :
            IF HasDesc(card)
            THEN [id          |-> card.id,
                  name        |-> card.name,
                  description |-> card.desc,
                  level       |-> parsed.level,
                  duration    |-> parsed.duration,
                  category    |-> parsed.category,
                  materials   |-> parsed.materials,
                  listName    |-> card.list.name]
            ELSE [id          |-> card.id,
                  name        |-> card.name,
                  level       |-> parsed.level,
                  duration    |-> parsed.duration,
                  category    |-> parsed.category,
                  materials   |-> parsed.materials,
                  listName    |-> card.list.name])

\* cards.map(card => ...): the activities of the fetched cards, in card order
Catalog(cards) == [i \in DOMAIN cards |-> Activity(cards[i])]

\* if (category) filtered = filtered.filter(a => a.category === category)
byCategory(activities, category) ==
    LET ByCategory(a) == a.category = category
    IN  IF category # "" THEN SelectSeq(activities, ByCategory) ELSE activities

\* if (level) filtered = filtered.filter(a => a.level === level)
byLevel(activities, level) ==
    LET ByLevel(a) == a.level = level
    IN  IF level # "" THEN SelectSeq(activities, ByLevel) ELSE activities

RECURSIVE SpliceOver(_, _)
\* a loop that splices the activities over the bound out of the array it
\* walks: the activity after a removed one is not tested
SpliceOver(activities, minutes) ==
    IF activities = <<>> THEN <<>>
    ELSE IF activities[1].duration <= minutes
         THEN <<activities[1]>> \o SpliceOver(Tail(activities), minutes)
         ELSE IF Len(activities) = 1 THEN <<>>
              ELSE <<activities[2]>> \o SpliceOver(Tail(Tail(activities)), minutes)

\* maxDuration, were it such a loop instead of Array.prototype.filter
maxDurationSplice(activities, duration) ==
    IF Truthy(duration) THEN SpliceOver(activities, duration.val) ELSE activities

\* if (duration) filtered = filtered.filter(a => a.duration <= duration)
maxDuration(activities, duration) ==
    LET ByDuration(a) == a.duration <= duration.val
    IN  IF Truthy(duration) THEN SelectSeq(activities, ByDuration) ELSE activities

\* the three filters in the order of the source
ApplyFilters(activities, args) ==
    maxDuration(byLevel(byCategory(activities, args.category), args.level), args.duration)

\* getActivities({ category, level, duration }) on the fetched cards
getActivities(cards, args) == ApplyFilters(Catalog(cards), args)

\* what a tool call hands back: the activities, or the error the handler caught
Content(activities) == [isError |-> FALSE, content |-> activities]
ErrorContent == [isError |-> TRUE, content |-> <<>>]

\* the test of searchActivities gets past the name of an activity that has
\* no description: activity.description.toLowerCase() throws a TypeError
SearchThrows(activities, query) ==
    \E k \in DOMAIN activities :
        /\ ~Includes(ToLowerCase(activities[k].name), ToLowerCase(query))
        /\ "description" \notin DOMAIN activities[k]

\* searchActivities({ query }) on the activities getActivities({}) returned
searchActivities(activities, query) ==
    LET Matches(a) ==
            \/ Includes(ToLowerCase(a.name), ToLowerCase(query))
            \/ Includes(ToLowerCase(a.description), ToLowerCase(query))
    IN  IF SearchThrows(activities, query) THEN ErrorContent
        ELSE Content(SelectSeq(activities, Matches))

\* a.tags?.includes(tag): undefined, so falsy, when the activity has no tags
HasTag(a, tag) == IF "tags" \in DOMAIN a THEN tag \in a.tags ELSE FALSE

\* IsWarmup, were the tag not asked for
IsWarmupUntagged(a) == a.duration <= 10

\* the predicate of activities.find in suggestLesson
IsWarmup(a) == a.duration <= 10 /\ HasTag(a, "warmup")

\* Array.prototype.find: the first element satisfying the test, else undefined
Find(seq, Test(_)) ==
    With(FirstIndex(1, Len(seq), LAMBDA k : Test(seq[k])),
         LAMBDA k : IF k = 0 THEN Unset ELSE Some(seq[k]))

ReservedMinutes == 20

\* const mainTime = total_duration - 20: the minutes suggestLesson leaves to
\* the main activities
mainTime(total_duration) == total_duration - ReservedMinutes

\* suggestLesson, were the first short activity taken as the warm-up and
\* again as the cool-down
suggestLessonShortTwice(cards, args) ==
    With(getActivities(cards, [category |-> "", level |-> args.student_level,
                               duration |-> Absent]),
         LAMBDA activities :
            [warmup          |-> Find(activities, IsWarmupUntagged),
             main_activities |-> <<>>,
             cooldown        |-> Find(activities, IsWarmupUntagged),
             total_duration  |-> 0])

\* suggestLesson, were the candidates those of the focus category alone and
\* all of them taken as main activities
suggestLessonFocusOnly(cards, args) ==
    With(getActivities(cards, [category |-> args.focus_area,
                               level |-> args.student_level,
                               duration |-> Absent]),
         LAMBDA activities :
            [warmup          |-> Find(activities, IsWarmup),
             main_activities |-> activities,
             cooldown        |-> Unset,
             total_duration  |-> 0])

\* suggestLesson, were the requested duration reported as the total
suggestLessonTotalIsTarget(cards, args) ==
    [warmup          |-> Find(getActivities(cards, [category |-> "",
                                                    level |-> args.student_level,
                                                    duration |-> Absent]), IsWarmup),
     main_activities |-> <<>>,
     cooldown        |-> Unset,
     total_duration  |-> args.total_duration]

\* suggestLesson({ student_level, focus_area, total_duration }) on the
\* fetched cards. mainTime(total_duration) is computed and never used.
suggestLesson(cards, args) ==
    LET activities == getActivities(cards, [category |-> "", level |-> args.student_level,
                                            duration |-> Absent])
    IN  [warmup          |-> Find(activities, IsWarmup),
         main_activities |-> <<>>,
         cooldown        |-> Unset,
         total_duration  |-> 0]

(***************************************************************************)
(* TrelloImporter.getListId, getLabels, createActivityCard                 *)
(***************************************************************************)

\* the lists of the board, in board order, and the names of its labels
BoardLists == <<"Ready to Teach", "Grammar", "Speaking">>
BoardLabels == {"warmup", "cooldown", "Intermediate", "Advanced", "Grammar", "Speaking"}

\* getListId: the first list whose lowercased name includes the lowercased
\* category, else the first list of the board
getListId(category) ==
    With(FirstIndex(1, Len(BoardLists),
                    LAMBDA k : Includes(ToLowerCase(BoardLists[k]), ToLowerCase(category))),
         LAMBDA k : IF k = 0 THEN BoardLists[1] ELSE BoardLists[k])

\* getLabels: the board labels named like the level and like the category
getLabels(activity) ==
    {l \in BoardLabels : ToLowerCase(l) = ToLowerCase(activity.level)}
    \cup {l \in BoardLabels : ToLowerCase(l) = ToLowerCase(activity.category)}

\* the card POST /cards creates for createActivityCard(activity)
NewCard(id, activity) ==
    [id     |-> id,
     name   |-> formatTitle(activity),
     desc   |-> formatDescription(activity),
     labels |-> getLabels(activity),
     list   |-> [name |-> getListId(activity.category)]]

(***************************************************************************)
(* Inputs                                                                  *)
(***************************************************************************)

\* the most cards the board holds
MaxCards == 3

RawCard(id, name, desc, labels, listName) ==
    [id |-> id, name |-> name, desc |-> desc, labels |-> labels, list |-> [name |-> listName]]

\* cards written by hand on the board, in board order
CardPool ==
    << RawCard("c1", "Past tense drill",
               "[Level: Intermediate] [Duration: 10] [Category: grammar]",
               {"warmup", "cooldown"}, "Grammar"),
       RawCard("c2", "Roleplay 25 min", "[Level: Intermediate] [Duration: 25]",
               {}, "Speaking"),
       RawCard("c3", "Essay", "[Level: Intermediate] [Duration: 30]", {}, "Ready to Teach"),
       RawCard("c4", "[25m] Quiz | Grammar", "LEVEL: Advanced\nDURATION: 45",
               {"Advanced"}, "Grammar"),
       RawCard("c5", "Debate 0 min", "[Duration: -5] [Level: Expert]", {}, "Speaking"),
       RawCard("c6", "Chat", "", {"cooldown"}, "Ready to Teach"),
       RawCard("c7", "Game", "[Duration: 0] [Level: Intermediate]", {"warmup"},
               "Ready to Teach"),
       RawCard("c8", "Song", "Level: B2. [Duration: soon]", {}, "Ready to Teach"),
       \* a card fetched without a description
       [id |-> "c9", name |-> "[10m] Untitled", labels |-> {},
        list |-> [name |-> "Ready to Teach"]] >>

\* the boards the programs may find: up to MaxCards consecutive cards of the pool
InitialBoards ==
    {<<>>} \cup {SubSeq(CardPool, w[1], w[2]) :
                    w \in {v \in (DOMAIN CardPool) \X (DOMAIN CardPool) :
                              v[1] <= v[2] /\ v[2] - v[1] < MaxCards}}

\* activities given to the importer (a JSON export)
ActivityPool ==
    { [name |-> "Negotiation roleplay", duration |-> 30, category |-> "Speaking",
       level |-> "Advanced", energy |-> "High", interaction |-> "",
       skills |-> <<"Speaking", "Listening">>, professions |-> <<>>,
       objectives |-> <<"Agree a price">>, materials |-> "",
       instructions |-> "Pairs negotiate.", variations |-> "", notes |-> ""],
      [name |-> "Conditionals quiz", duration |-> 10, category |-> "Grammar",
       level |-> "Intermediate", energy |-> "", interaction |-> "Individual",
       skills |-> <<"Grammar">>, professions |-> <<"Sales">>,
       objectives |-> <<>>, materials |-> "[Handout: unit 3]",
       instructions |-> "Ten questions.", variations |-> "", notes |-> ""] }

Levels == {"Intermediate", "Advanced"}
Categories == {"", "grammar"}
Durations == {Absent, Given(0), Given(15)}
Targets == {0, 60}

\* the names of the tools getTools advertises
getTools == {"get_activities", "suggest_lesson", "search_activities"}

\* the tool calls a client makes
ToolCalls ==
    {[name |-> "get_activities",
      args |-> [category |-> c, level |-> l, duration |-> d]] :
        c \in Categories, l \in {"", "Intermediate"}, d \in Durations}
    \cup
    {[name |-> "suggest_lesson",
      args |-> [student_level |-> l, focus_area |-> f, total_duration |-> t]] :
        l \in Levels, f \in Categories, t \in Targets}
    \cup
    {[name |-> "search_activities", args |-> [query |-> "quiz"]]}

(***************************************************************************)
(* State                                                                   *)
(***************************************************************************)

VARIABLES
    board,      \* the cards of the Trello board, in board order
    spc,        \* the server: "idle", "fetch" (awaiting the cards), "done"
    call,       \* the tool call the server is handling (Unset when idle)
    result,     \* what the handler returned (Unset until it returns)
    ipc,        \* the importer: "idle", "created" (rate-limit wait), "reformat"
    created,    \* createActivityCard's argument and the card it returned
    snapshot,   \* the cards reformatExistingCards fetched
    idx,        \* the position of its for loop in snapshot
    formatted,  \* the card and parsed activity of its last update
    reqs,       \* the tool calls the stdio server handles concurrently
    events,     \* the comments delivered to the webhook handler
    form,       \* the new-activity form of the web app: its state and its request
    db          \* the rows of the activity table of the web app

vars ==
    <<board, spc, call, result, ipc, created, snapshot, idx, formatted, reqs, events,
      form, db>>
serverVars == <<spc, call, result>>
importerVars == <<ipc, created, snapshot, idx, formatted>>
requestVars == <<reqs>>
webhookVars == <<events>>
appVars == <<form, db>>

\* the most tool calls the stdio server handles at once
MaxRequests == 2
Requests == 1..MaxRequests

\* a handler that is not running: its locals do not exist
IdleRequest ==
    [pc |-> "idle", call |-> Unset, cards |-> <<>>, activities |-> <<>>, filtered |-> Unset]

InitServer == spc = "idle" /\ call = Unset /\ result = Unset
InitImporter ==
    /\ ipc = "idle" /\ created = Unset /\ snapshot = <<>> /\ idx = 0
    /\ formatted = Unset
InitRequests == reqs = [r \in Requests |-> IdleRequest]

\* the most comments the webhook handler is handling at once
MaxDeliveries == 2
Deliveries == 1..MaxDeliveries

\* an invocation of the webhook handler that is not running
IdleDelivery == [pc |-> "idle", text |-> "", intent |-> Unset, reply |-> Unset]

InitWebhook == events = [d \in Deliveries |-> IdleDelivery]

\* the most rows the activity table holds
MaxStored == 1

\* the two versions of the new-activity page, with the durations their
\* useState(...) starts from
FormPages ==
    { [page |-> "app/activities/new/page.tsx",
       minDuration |-> 15, maxDuration |-> 25, typicalDuration |-> 20],
      [page |-> "unnamed/part_003",
       minDuration |-> 15, maxDuration |-> 45, typicalDuration |-> 30] }

\* NewActivityPage on its first render: useState(false), useState({...})
NewForm(p) ==
    [page            |-> p.page,
     pc              |-> "editing",
     isSubmitting    |-> FALSE,
     minDuration     |-> p.minDuration,
     maxDuration     |-> p.maxDuration,
     typicalDuration |-> p.typicalDuration,
     materials       |-> "",
     request         |-> Unset,
     response        |-> Unset,
     route           |-> "/activities/new"]

\* the web app with nobody on the page and an empty table
InitApp ==
    /\ form = NewForm(CHOOSE p \in FormPages : p.page = "app/activities/new/page.tsx")
    /\ db = {}

Init ==
    /\ board \in InitialBoards
    /\ InitServer
    /\ InitImporter
    /\ InitRequests
    /\ InitWebhook
    /\ InitApp

(***************************************************************************)
(* The server                                                              *)
(***************************************************************************)

\* the methods class CurriculumMCPServer defines
Methods == {"getTools", "handleToolCall", "getActivities", "suggestLesson", "parseCardData"}

\* the method the switch of handleToolCall calls for a tool name
Dispatch(name) ==
    IF name = "get_activities" THEN "getActivities"
    ELSE IF name = "suggest_lesson" THEN "suggestLesson"
    ELSE "searchActivities"

\* this.searchActivities is undefined: calling it throws a TypeError
NotAFunction == [threw |-> "TypeError"]

\* handleToolCall(name, args) starts: the handler runs up to its await fetch
HandleToolCall(c) ==
    /\ spc = "idle"
    /\ Dispatch(c.name) \in Methods
    /\ spc' = "fetch"
    /\ call' = Some(c)
    /\ UNCHANGED <<requestVars, webhookVars, appVars, board, result, importerVars>>

\* handleToolCall(name, args) calls a method the class does not define: the
\* call throws and the promise handleToolCall returned is rejected
HandleToolCallThrows(c) ==
    /\ spc = "idle"
    /\ Dispatch(c.name) \notin Methods
    /\ spc' = "done"
    /\ call' = Some(c)
    /\ result' = Some(NotAFunction)
    /\ UNCHANGED <<requestVars, webhookVars, appVars, board, importerVars>>

\* the fetch resolves with the cards of the board; getActivities parses and
\* filters them and returns
GetActivitiesReturn ==
    /\ spc = "fetch"
    /\ call[1].name = "get_activities"
    /\ result' = Some(getActivities(board, call[1].args))
    /\ spc' = "done"
    /\ UNCHANGED <<requestVars, webhookVars, appVars, board, call, importerVars>>

\* the same for suggestLesson, which awaits getActivities
SuggestLessonReturn ==
    /\ spc = "fetch"
    /\ call[1].name = "suggest_lesson"
    /\ result' = Some(suggestLesson(board, call[1].args))
    /\ spc' = "done"
    /\ UNCHANGED <<requestVars, webhookVars, appVars, board, call, importerVars>>

\* the reply is sent; the server waits for the next call
Respond ==
    /\ spc = "done"
    /\ spc' = "idle" /\ call' = Unset /\ result' = Unset
    /\ UNCHANGED <<requestVars, webhookVars, appVars, board, importerVars>>

(***************************************************************************)
(* The importer                                                            *)
(***************************************************************************)

\* createActivityCard(activity), called by importFromJSON
CreateActivityCard(activity) ==
    /\ ipc = "idle"
    /\ Len(board) < MaxCards
    /\ LET card == NewCard("n" \o NumberToString(Len(board) + 1), activity)
       IN  /\ board' = Append(board, card)
           /\ created' = Some([activity |-> activity, card |-> card])
    /\ ipc' = "created"
    /\ UNCHANGED <<requestVars, webhookVars, appVars, serverVars, snapshot, idx, formatted>>

\* the rate-limit wait after a card ends
ImportWait ==
    /\ ipc = "created"
    /\ ipc' = "idle" /\ created' = Unset
    /\ UNCHANGED <<requestVars, webhookVars, appVars, board, serverVars, snapshot, idx, formatted>>

\* reformatExistingCards fetches the cards of the board
ReformatFetch ==
    /\ ipc = "idle"
    /\ snapshot' = board
    /\ idx' = 1
    /\ ipc' = "reformat"
    /\ UNCHANGED <<requestVars, webhookVars, appVars, board, serverVars, created, formatted>>

\* card.desc.includes is reached and card.desc is undefined: a TypeError
ReformatThrows(card) == Includes(card.name, "[") /\ ~HasDesc(card)

\* card.name.includes('[') && card.desc.includes('LEVEL:')
AlreadyFormatted(card) ==
    Includes(card.name, "[") /\ HasDesc(card) /\ Includes(card.desc, "LEVEL:")

\* PUT /cards/{id} with a new name and description
UpdateCard(cards, id, name, desc) ==
    [k \in DOMAIN cards |->
        IF cards[k].id = id
        THEN [id |-> id, name |-> name, desc |-> desc,
              labels |-> cards[k].labels, list |-> cards[k].list]
        ELSE cards[k]]

\* one iteration of the for loop: a formatted card is skipped
ReformatSkip ==
    /\ ipc = "reformat"
    /\ idx <= Len(snapshot)
    /\ ~ReformatThrows(snapshot[idx])
    /\ AlreadyFormatted(snapshot[idx])
    /\ idx' = idx + 1
    /\ UNCHANGED <<requestVars, webhookVars, appVars, board, serverVars, ipc, created, snapshot, formatted>>

\* one iteration of the for loop: any other card is parsed and updated
ReformatUpdate ==
    /\ ipc = "reformat"
    /\ idx <= Len(snapshot)
    /\ ~ReformatThrows(snapshot[idx])
    /\ ~AlreadyFormatted(snapshot[idx])
    /\ LET activity == parseUnstructuredCard(snapshot[idx])
       IN  /\ formatted' = Some([card |-> snapshot[idx], activity |-> activity])
           /\ board' = UpdateCard(board, snapshot[idx].id, formatTitle(activity),
                                  formatDescription(activity))
    /\ idx' = idx + 1
    /\ UNCHANGED <<requestVars, webhookVars, appVars, serverVars, ipc, created, snapshot>>

\* one iteration of the for loop: the test of a card without a description
\* throws; reformatExistingCards rejects and main logs the error
ReformatThrow ==
    /\ ipc = "reformat"
    /\ idx <= Len(snapshot)
    /\ ReformatThrows(snapshot[idx])
    /\ ipc' = "idle" /\ snapshot' = <<>> /\ idx' = 0 /\ formatted' = Unset
    /\ UNCHANGED <<requestVars, webhookVars, appVars, board, serverVars, created>>

\* the loop is over
ReformatDone ==
    /\ ipc = "reformat"
    /\ idx > Len(snapshot)
    /\ ipc' = "idle" /\ snapshot' = <<>> /\ idx' = 0 /\ formatted' = Unset
    /\ UNCHANGED <<requestVars, webhookVars, appVars, board, serverVars, created>>

Next ==
    \/ \E c \in ToolCalls : HandleToolCall(c)
    \/ \E c \in ToolCalls : HandleToolCallThrows(c)
    \/ GetActivitiesReturn
    \/ SuggestLessonReturn
    \/ Respond
    \/ \E a \in ActivityPool : CreateActivityCard(a)
    \/ ImportWait
    \/ ReformatFetch
    \/ ReformatSkip
    \/ ReformatUpdate
    \/ ReformatThrow
    \/ ReformatDone

Spec == Init /\ [][Next]_vars

(***************************************************************************)
(* The importer run by main(), on a board of handwritten cards             *)
(***************************************************************************)

\* cards written by hand, with free titles, next to a card that is already
\* formatted and one fetched without a description
HandwrittenPool ==
    << RawCard("h1", "Negotiation skills", "", {}, "Ready to Teach"),
       RawCard("h2", "Tense review 15 min", "Level: Advanced", {}, "Ready to Teach"),
       CardPool[4],
       RawCard("h3", "Salary negotiation roleplay", "Objectives: agree a raise", {},
               "Ready to Teach"),
       RawCard("h4", "Conditional chains [draft]", "level B1", {}, "Ready to Teach"),
       RawCard("h5", "Warm up song", "", {}, "Ready to Teach"),
       CardPool[9] >>

\* the boards the importer may find: up to MaxCards consecutive cards
HandwrittenBoards ==
    {<<>>} \cup {SubSeq(HandwrittenPool, w[1], w[2]) :
                    w \in {v \in (DOMAIN HandwrittenPool) \X (DOMAIN HandwrittenPool) :
                              v[1] <= v[2] /\ v[2] - v[1] < MaxCards}}

InitHandwritten ==
    /\ board \in HandwrittenBoards
    /\ InitServer
    /\ InitImporter
    /\ InitRequests
    /\ InitWebhook
    /\ InitApp

NextImporter ==
    \/ \E a \in ActivityPool : CreateActivityCard(a)
    \/ ImportWait
    \/ ReformatFetch
    \/ ReformatSkip
    \/ ReformatUpdate
    \/ ReformatThrow
    \/ ReformatDone

SpecImporter == InitHandwritten /\ [][NextImporter]_vars

(***************************************************************************)
(* Concurrent tool calls of the stdio server (build-mcp-layer.sh)          *)
(***************************************************************************)

\* the tool calls the clients of the stdio server make
RequestCalls ==
    { [name |-> "get_activities",
       args |-> [category |-> "", level |-> "Intermediate", duration |-> Absent]],
      [name |-> "search_activities", args |-> [query |-> "quiz"]] }

\* getActivities({}): no filter is given
NoFilter == [category |-> "", level |-> "", duration |-> Absent]

\* const activities = cards.map(...), were the catalog kept in a field of the
\* server object that all the handlers share
BindActivitiesShared(rs, r, activities) ==
    [q \in DOMAIN rs |->
        IF q = r THEN [rs[q] EXCEPT !.activities = activities, !.pc = "filter"]
        ELSE IF rs[q].pc \in {"filter", "done"} THEN [rs[q] EXCEPT !.activities = activities]
        ELSE rs[q]]

\* const activities = cards.map(...): a local of the one call
BindActivities(rs, r, activities) ==
    [rs EXCEPT ![r].activities = activities, ![r].pc = "filter"]

\* what the handler of the call makes of its activities: the filters of
\* getActivities, and for a search the filter of searchActivities after them
Answer(c, activities) ==
    IF c.name = "search_activities"
    THEN searchActivities(ApplyFilters(activities, NoFilter), c.args.query)
    ELSE Content(ApplyFilters(activities, c.args))

\* a CallToolRequest arrives: its handler runs up to its await fetch
ReqStart(r, c) ==
    /\ reqs[r].pc = "idle"
    /\ reqs' = [reqs EXCEPT ![r] = [IdleRequest EXCEPT !.pc = "fetch", !.call = Some(c)]]
    /\ UNCHANGED <<board, serverVars, importerVars, webhookVars, appVars>>

\* its fetch resolves with the cards of the board
ReqFetch(r) ==
    /\ reqs[r].pc = "fetch"
    /\ reqs' = [reqs EXCEPT ![r].cards = board, ![r].pc = "parse"]
    /\ UNCHANGED <<board, serverVars, importerVars, webhookVars, appVars>>

\* it maps the cards to activities
ReqParse(r) ==
    /\ reqs[r].pc = "parse"
    /\ reqs' = BindActivities(reqs, r, Catalog(reqs[r].cards))
    /\ UNCHANGED <<board, serverVars, importerVars, webhookVars, appVars>>

\* it filters the activities
ReqFilter(r) ==
    /\ reqs[r].pc = "filter"
    /\ reqs' = [reqs EXCEPT ![r].filtered = Some(Answer(reqs[r].call[1], reqs[r].activities)),
                            ![r].pc = "done"]
    /\ UNCHANGED <<board, serverVars, importerVars, webhookVars, appVars>>

\* it returns the content; its locals are gone
ReqRespond(r) ==
    /\ reqs[r].pc = "done"
    /\ reqs' = [reqs EXCEPT ![r] = IdleRequest]
    /\ UNCHANGED <<board, serverVars, importerVars, webhookVars, appVars>>

\* the board the stdio server starts with: one card short of full
InitConcurrent ==
    /\ board = SubSeq(CardPool, 1, MaxCards - 1)
    /\ InitServer
    /\ InitImporter
    /\ InitRequests
    /\ InitWebhook
    /\ InitApp

NextConcurrent ==
    \/ \E r \in Requests, c \in RequestCalls : ReqStart(r, c)
    \/ \E r \in Requests : ReqFetch(r)
    \/ \E r \in Requests : ReqParse(r)
    \/ \E r \in Requests : ReqFilter(r)
    \/ \E r \in Requests : ReqRespond(r)
    \/ \E a \in ActivityPool : CreateActivityCard(a)

SpecConcurrent == InitConcurrent /\ [][NextConcurrent]_vars

(***************************************************************************)
(* The command interpreter of the webhook handler (lambda_main.handler),   *)
(* after sections 4.4 and 7 of the specification                           *)
(***************************************************************************)

\* the level names, a longer name before the name it contains
LevelNames == <<"Beginner", "Elementary", "Upper-Intermediate", "Intermediate", "Advanced">>
\* the category names
CategoryNames == <<"Grammar", "Speaking", "Writing", "Business">>

\* the first name of the sequence that the lower-case text contains in lower
\* case, Unset when it contains none
FirstNamed(lower, names) ==
    With(FirstIndex(1, Len(names), LAMBDA k : Includes(lower, ToLowerCase(names[k]))),
         LAMBDA k : IF k = 0 THEN Unset ELSE Some(names[k]))

\* ExtractMinutes, were white space the only separator before "min"
ExtractMinutesSpaced(lower) ==
    With(FirstIndex(1, Len(lower),
                    LAMBDA k :
                        /\ SubSeq(lower, k, k) \in DigitChars
                        /\ With(RunEnd(lower, k, DigitChars),
                                LAMBDA e : Sub(lower, RunEnd(lower, e + 1, SpaceChars) + 1,
                                               RunEnd(lower, e + 1, SpaceChars) + 3) = "min")),
         LAMBDA k :
            IF k = 0 THEN Unset
            ELSE Some(DigitsValue(SubSeq(lower, k, RunEnd(lower, k, DigitChars)))))

\* the minutes the text names: the first run of digits followed, after
\* white space or hyphens if any, by "min" ("20 min", "20-minute", "20min")
ExtractMinutes(lower) ==
    With(FirstIndex(1, Len(lower),
                    LAMBDA k :
                        /\ SubSeq(lower, k, k) \in DigitChars
                        /\ With(RunEnd(lower, k, DigitChars),
                                LAMBDA e : Sub(lower, RunEnd(lower, e + 1, SpaceChars \cup {"-"}) + 1,
                                               RunEnd(lower, e + 1, SpaceChars \cup {"-"}) + 3) = "min")),
         LAMBDA k :
            IF k = 0 THEN Unset
            ELSE Some(DigitsValue(SubSeq(lower, k, RunEnd(lower, k, DigitChars)))))

SuggestActivities(lower) ==
    [kind        |-> "SuggestActivities",
     level       |-> FirstNamed(lower, LevelNames),
     category    |-> FirstNamed(lower, CategoryNames),
     maxDuration |-> ExtractMinutes(lower)]

\* BuildLesson, were a comment that names no level not accepted
BuildLessonStrict(lower) ==
    IF FirstNamed(lower, LevelNames) = Unset THEN [kind |-> "Unrecognized"]
    ELSE [kind               |-> "BuildLesson",
          level              |-> FirstNamed(lower, LevelNames),
          focusCategory      |-> FirstNamed(lower, CategoryNames),
          totalDuration      |-> ExtractMinutes(lower),
          needsClarification |-> FALSE]

BuildLesson(lower) ==
    [kind               |-> "BuildLesson",
     level              |-> FirstNamed(lower, LevelNames),
     focusCategory      |-> FirstNamed(lower, CategoryNames),
     totalDuration      |-> ExtractMinutes(lower),
     needsClarification |-> FirstNamed(lower, LevelNames) = Unset]

\* the tags of the closed variant Intent
IntentKinds ==
    {"SuggestActivities", "BuildLesson", "FindAlternative", "Analyze", "Unrecognized"}

\* interpret, were a text with the keywords of two intents given a tag of
\* its own
interpretOverlap(commentText) ==
    With(ToLowerCase(commentText),
         LAMBDA lower :
            IF /\ Includes(lower, "suggest") /\ Includes(lower, "activit")
               /\ Includes(lower, "build") /\ Includes(lower, "lesson")
            THEN [kind |-> "Ambiguous"]
            ELSE IF Includes(lower, "suggest") /\ Includes(lower, "activit")
            THEN SuggestActivities(lower)
            ELSE IF Includes(lower, "build") /\ Includes(lower, "lesson")
            THEN BuildLesson(lower)
            ELSE IF Includes(lower, "alternative") \/ Includes(lower, "similar")
            THEN [kind |-> "FindAlternative"]
            ELSE IF Includes(lower, "analyze") \/ Includes(lower, "usage")
            THEN [kind |-> "Analyze"]
            ELSE [kind |-> "Unrecognized"])

\* interpret(commentText): the keyword sets are tried in the order in which
\* section 4.4 lists the intents, on the lower-case text
interpret(commentText) ==
    With(ToLowerCase(commentText),
         LAMBDA lower :
            IF Includes(lower, "suggest") /\ Includes(lower, "activit")
            THEN SuggestActivities(lower)
            ELSE IF Includes(lower, "build") /\ Includes(lower, "lesson")
            THEN BuildLesson(lower)
            ELSE IF Includes(lower, "alternative") \/ Includes(lower, "similar")
            THEN [kind |-> "FindAlternative"]
            ELSE IF Includes(lower, "analyze") \/ Includes(lower, "usage")
            THEN [kind |-> "Analyze"]
            ELSE [kind |-> "Unrecognized"])

\* the reply, were an unrecognized request dropped
ReplyForSilent(intent) ==
    IF intent.kind = "Unrecognized" THEN Unset
    ELSE IF intent.kind = "BuildLesson" /\ intent.needsClarification THEN Some("clarify")
    ELSE Some("answer")

\* the reply the handler makes for an intent: help for an unrecognized one
ReplyFor(intent) ==
    IF intent.kind = "Unrecognized" THEN Some("help")
    ELSE IF intent.kind = "BuildLesson" /\ intent.needsClarification THEN Some("clarify")
    ELSE Some("answer")

\* the comments teachers write, each with the sentinel that dispatches it
Comments ==
    { "@ai suggest 20-minute grammar activities",
      "@ai build lesson",
      "@ai Build a 60 min lesson for Advanced students",
      "@ai find easier alternatives",
      "@ai analyze usage",
      "@ai suggest something",
      "@ai suggest activities to build a lesson",
      "@ai" }

\* interpret on each of the comments
Intents == [text \in Comments |-> interpret(text)]

\* a comment is dispatched to the interpreter
Deliver(d, text) ==
    /\ events[d].pc = "idle"
    /\ events' = [events EXCEPT ![d] = [IdleDelivery EXCEPT !.pc = "received", !.text = text]]
    /\ UNCHANGED <<board, serverVars, importerVars, requestVars, appVars>>

\* the interpreter classifies it
Interpret(d) ==
    /\ events[d].pc = "received"
    /\ events' = [events EXCEPT ![d].intent = Some(Intents[events[d].text]),
                                ![d].pc = "classified"]
    /\ UNCHANGED <<board, serverVars, importerVars, requestVars, appVars>>

\* the reply is made and handed to the comment poster
Reply(d) ==
    /\ events[d].pc = "classified"
    /\ events' = [events EXCEPT ![d].reply = ReplyFor(events[d].intent[1]),
                                ![d].pc = "replied"]
    /\ UNCHANGED <<board, serverVars, importerVars, requestVars, appVars>>

\* the invocation ends
Finish(d) ==
    /\ events[d].pc = "replied"
    /\ events' = [events EXCEPT ![d] = IdleDelivery]
    /\ UNCHANGED <<board, serverVars, importerVars, requestVars, appVars>>

InitInterpreter ==
    /\ board = <<>>
    /\ InitServer
    /\ InitImporter
    /\ InitRequests
    /\ InitWebhook
    /\ InitApp

NextInterpreter ==
    \/ \E d \in Deliveries, text \in Comments : Deliver(d, text)
    \/ \E d \in Deliveries : Interpret(d)
    \/ \E d \in Deliveries : Reply(d)
    \/ \E d \in Deliveries : Finish(d)

\* an invocation that has started runs to its end
SpecInterpreter ==
    /\ InitInterpreter
    /\ [][NextInterpreter]_vars
    /\ \A d \in Deliveries : WF_vars(Interpret(d)) /\ WF_vars(Reply(d)) /\ WF_vars(Finish(d))

(***************************************************************************)
(* The web app: the new-activity form (NewActivityPage) and the route      *)
(* POST /api/activities                                                    *)
(***************************************************************************)

\* what body.minDuration || ... and body.maxDuration || ... fall back on, in
\* the two versions of the route
Fallbacks ==
    { [route |-> "app/api/activities/route.ts", below |-> 5, above |-> 10],
      [route |-> "unnamed/part_004", below |-> 10, above |-> 15] }

\* the durations in the data of db.activity.create: a || b is b when a is
\* undefined, null or 0
ActivityData(body, fallback) ==
    [minDuration     |-> IF Truthy(body.minDuration) THEN body.minDuration.val
                         ELSE body.typicalDuration.val - fallback.below,
     maxDuration     |-> IF Truthy(body.maxDuration) THEN body.maxDuration.val
                         ELSE body.typicalDuration.val + fallback.above,
     typicalDuration |-> body.typicalDuration.val]

\* request bodies of clients that call the route themselves
Bodies ==
    { [minDuration |-> a, maxDuration |-> b, typicalDuration |-> Given(30)] :
        a \in {Absent, Given(0), Given(50)}, b \in {Absent, Given(0)} }

\* JSON.stringify({...formData, ...}): the durations of the form
FormBody(f) ==
    [minDuration     |-> Given(f.minDuration),
     maxDuration     |-> Given(f.maxDuration),
     typicalDuration |-> Given(f.typicalDuration)]

\* JSON.parse(text) throws a SyntaxError: here, on a text that is not an
\* object literal in braces
JSONParseThrows(text) ==
    ~( /\ Len(text) >= 2
       /\ SubSeq(text, 1, 1) = "{"
       /\ SubSeq(text, Len(text), Len(text)) = "}" )

\* formData.materials ? JSON.parse(formData.materials) : {} throws; the page
\* of src/app wraps the text in an object instead and never throws
MaterialsThrow(f) ==
    f.page = "unnamed/part_003" /\ f.materials # "" /\ JSONParseThrows(f.materials)

\* Finally, were setIsSubmitting(false) left out of handleSubmit
FinallySkipped(f) ==
    [f EXCEPT !.pc = "editing"]

\* finally { setIsSubmitting(false) }: handleSubmit is over. The request and
\* the response of the submission are kept until the next one starts.
Finally(f) ==
    [f EXCEPT !.isSubmitting = FALSE, !.pc = "editing"]

\* what the teacher types into the typical duration (min 5, max 120) and
\* into the materials
TypicalInputs == {5, 60}
MaterialInputs == {"", "handout"}

\* onChange of the typical duration input
ChangeTypicalDuration(v) ==
    /\ form.pc = "editing" /\ form.route = "/activities/new"
    /\ form' = [form EXCEPT !.typicalDuration = v]
    /\ UNCHANGED <<board, serverVars, importerVars, requestVars, webhookVars, db>>

\* onChange of the materials input, which only the page of src/app has: in
\* part_003 formData.materials stays ''
ChangeMaterials(text) ==
    /\ form.pc = "editing" /\ form.route = "/activities/new"
    /\ form.page = "app/activities/new/page.tsx"
    /\ form' = [form EXCEPT !.materials = text]
    /\ UNCHANGED <<board, serverVars, importerVars, requestVars, webhookVars, db>>

\* handleSubmit starts (the submit button is disabled while isSubmitting):
\* setIsSubmitting(true), then the try block up to await fetch, or to the
\* alert of the catch block when building the body throws
HandleSubmit ==
    /\ form.pc = "editing" /\ form.route = "/activities/new"
    /\ ~form.isSubmitting
    /\ form' = IF MaterialsThrow(form)
               THEN [form EXCEPT !.isSubmitting = TRUE, !.pc = "alert",
                                 !.request = Unset, !.response = Unset]
               ELSE [form EXCEPT !.isSubmitting = TRUE, !.pc = "fetching",
                                 !.request = Some(FormBody(form)), !.response = Unset]
    /\ UNCHANGED <<board, serverVars, importerVars, requestVars, webhookVars, db>>

\* POST handles the request of the form: the row is created and returned
FormPOST(fallback) ==
    /\ form.pc = "fetching" /\ form.response = Unset
    /\ Cardinality(db \cup {ActivityData(form.request[1], fallback)}) <= MaxStored
    /\ db' = db \cup {ActivityData(form.request[1], fallback)}
    /\ form' = [form EXCEPT !.response = Some([ok |-> TRUE])]
    /\ UNCHANGED <<board, serverVars, importerVars, requestVars, webhookVars>>

\* db.activity.create throws: the catch block of POST answers with status 500
FormPOSTFails ==
    /\ form.pc = "fetching" /\ form.response = Unset
    /\ form' = [form EXCEPT !.response = Some([ok |-> FALSE])]
    /\ UNCHANGED <<board, serverVars, importerVars, requestVars, webhookVars, db>>

\* POST handles the request of another client
POST(body, fallback) ==
    /\ Cardinality(db \cup {ActivityData(body, fallback)}) <= MaxStored
    /\ db' = db \cup {ActivityData(body, fallback)}
    /\ UNCHANGED <<board, serverVars, importerVars, requestVars, webhookVars, form>>

\* await fetch rejects (the network fails): catch, then finally; the page of
\* part_003 shows an alert first
FetchRejects ==
    /\ form.pc = "fetching" /\ form.response = Unset
    /\ form' = IF form.page = "unnamed/part_003"
               THEN [form EXCEPT !.pc = "alert"]
               ELSE Finally(form)
    /\ UNCHANGED <<board, serverVars, importerVars, requestVars, webhookVars, db>>

\* await fetch resolves. response.ok: part_003 awaits response.json(), the
\* page of src/app calls router.push; otherwise part_003 throws into its
\* catch block and the page of src/app logs the failure
FetchResolves ==
    /\ form.pc = "fetching" /\ form.response # Unset
    /\ form' = IF form.page = "unnamed/part_003"
               THEN IF form.response[1].ok
                    THEN [form EXCEPT !.pc = "reading"]
                    ELSE [form EXCEPT !.pc = "alert"]
               ELSE IF form.response[1].ok
                    THEN Finally([form EXCEPT !.route = "/activities"])
                    ELSE Finally(form)
    /\ UNCHANGED <<board, serverVars, importerVars, requestVars, webhookVars, db>>

\* await response.json() resolves: router.push, then finally
JsonResolves ==
    /\ form.pc = "reading"
    /\ form' = Finally([form EXCEPT !.route = "/activities/id"])
    /\ UNCHANGED <<board, serverVars, importerVars, requestVars, webhookVars, db>>

\* await response.json() rejects: the catch block
JsonRejects ==
    /\ form.pc = "reading"
    /\ form' = [form EXCEPT !.pc = "alert"]
    /\ UNCHANGED <<board, serverVars, importerVars, requestVars, webhookVars, db>>

\* alert('Failed to create activity. Please try again.') returns: finally
DismissAlert ==
    /\ form.pc = "alert"
    /\ form' = Finally(form)
    /\ UNCHANGED <<board, serverVars, importerVars, requestVars, webhookVars, db>>

\* the teacher opens the new-activity page again
OpenForm ==
    /\ form.route # "/activities/new"
    /\ form' = NewForm(CHOOSE p \in FormPages : p.page = form.page)
    /\ UNCHANGED <<board, serverVars, importerVars, requestVars, webhookVars, db>>

InitWebApp ==
    /\ board = <<>>
    /\ InitServer
    /\ InitImporter
    /\ InitRequests
    /\ InitWebhook
    /\ form \in {NewForm(p) : p \in FormPages}
    /\ db = {}

\* the request of the form is answered, or fails on the way
Settles == (\E fallback \in Fallbacks : FormPOST(fallback)) \/ FormPOSTFails \/ FetchRejects

NextWebApp ==
    \/ \E v \in TypicalInputs : ChangeTypicalDuration(v)
    \/ \E text \in MaterialInputs : ChangeMaterials(text)
    \/ HandleSubmit
    \/ \E fallback \in Fallbacks : FormPOST(fallback)
    \/ FormPOSTFails
    \/ \E body \in Bodies, fallback \in Fallbacks : POST(body, fallback)
    \/ FetchRejects
    \/ FetchResolves
    \/ JsonResolves
    \/ JsonRejects
    \/ DismissAlert
    \/ OpenForm

\* a request that was sent settles, a promise that was awaited settles and
\* the alert is dismissed
SpecWebApp ==
    /\ InitWebApp
    /\ [][NextWebApp]_vars
    /\ WF_vars(Settles)
    /\ WF_vars(FetchResolves)
    /\ WF_vars(JsonResolves \/ JsonRejects)
    /\ WF_vars(DismissAlert)

(***************************************************************************)
(* Properties of the lesson plan                                           *)
(***************************************************************************)

\* suggest_lesson has returned its lesson plan
LessonReturned == spc = "done" /\ call[1].name = "suggest_lesson"

RECURSIVE SumDurations(_)
SumDurations(seq) == IF seq = <<>> THEN 0 ELSE seq[1].duration + SumDurations(Tail(seq))

\* the minutes of the activities a lesson plan includes
PlanMinutes(lesson) ==
    SumDurations(lesson.warmup \o lesson.main_activities \o lesson.cooldown)

\* the board holds a card that parses to the given level, lasts at most 10
\* minutes and carries the given label
HasShortLabelled(level, label) ==
    \E k \in DOMAIN board :
        /\ label \in board[k].labels
        /\ parseCardData(board[k]).level = level
        /\ parseCardData(board[k]).duration <= 10

\* C1: the lesson plan suggest_lesson returns never lasts longer than the
\* requested duration, whether the total is read from total_duration or
\* counted over the warm-up, the main activities and the cool-down.
C1_WithinBudget ==
    LessonReturned =>
        /\ result[1].total_duration <= call[1].args.total_duration
        /\ PlanMinutes(result[1]) <= call[1].args.total_duration

\* a plan was returned for a zero budget while a short warm-up card of the
\* requested level is on the board
C1_Witness ==
    /\ LessonReturned
    /\ call[1].args.total_duration = 0
    /\ Len(board) = MaxCards
    /\ HasShortLabelled(call[1].args.student_level, "warmup")

\* C2: with a requested duration of 0 the plan has no main activity, no
\* warm-up and no cool-down (and the call returns a plan).
C2_ZeroBudgetEmptyPlan ==
    (LessonReturned /\ call[1].args.total_duration = 0) =>
        /\ result[1].main_activities = <<>>
        /\ result[1].warmup = Unset
        /\ result[1].cooldown = Unset

\* a plan was returned for a zero budget although the candidates fetched
\* for the requested level are not empty and a short card labelled warmup is
\* among the cards of that level
C2_Witness ==
    /\ LessonReturned
    /\ call[1].args.total_duration = 0
    /\ getActivities(board, [level |-> call[1].args.student_level,
                             category |-> "", duration |-> Absent]) # <<>>
    /\ HasShortLabelled(call[1].args.student_level, "warmup")

\* C3: total_duration of the returned plan is the sum of the durations of
\* its warm-up (if set), its main activities and its cool-down (if set).
C3_TotalIsSum ==
    LessonReturned => result[1].total_duration = PlanMinutes(result[1])

\* a plan was returned for a positive budget from a board with cards of the
\* requested level
C3_Witness ==
    /\ LessonReturned
    /\ call[1].args.total_duration > 0
    /\ \E k \in DOMAIN board : parseCardData(board[k]).level = call[1].args.student_level

(***************************************************************************)
(* Properties of the parsers                                               *)
(***************************************************************************)

\* the closed level enumeration of the specification
LevelEnumeration ==
    {"Beginner", "Elementary", "Intermediate", "Upper-Intermediate", "Advanced"}

\* the number N of the first description line "DURATION: N" with N written
\* as plain digits, 0 when the description has no such line
DurationLine(desc) ==
    With("\n" \o desc \o "\n",
         LAMBDA s :
            With(FirstIndex(1, Len(s),
                            LAMBDA k :
                                /\ SubSeq(s, k, k) = "\n"
                                /\ Sub(s, k + 1, k + 10) = "DURATION: "
                                /\ Ch(s, k + 11) \in DigitChars
                                /\ Ch(s, RunEnd(s, k + 11, DigitChars) + 1) = "\n"),
                 LAMBDA k :
                    IF k = 0 THEN 0
                    ELSE DigitsValue(SubSeq(s, k + 11, RunEnd(s, k + 11, DigitChars)))))

\* the number of the first run of digits of the title that is immediately
\* followed by "m" (so also by "min"), 0 when the title has none
TitleMinutes(name) ==
    With(FirstIndex(1, Len(name),
                    LAMBDA k :
                        /\ SubSeq(name, k, k) \in DigitChars
                        /\ Ch(name, RunEnd(name, k, DigitChars) + 1) = "m"),
         LAMBDA k :
            IF k = 0 THEN 0
            ELSE DigitsValue(SubSeq(name, k, RunEnd(name, k, DigitChars))))

\* the duration the specification's resolution order gives a card
ResolvedDuration(card) ==
    IF HasDesc(card) /\ DurationLine(card.desc) > 0 THEN DurationLine(card.desc)
    ELSE IF TitleMinutes(card.name) > 0 THEN TitleMinutes(card.name)
    ELSE DefaultDuration

\* C4: on the board of three Intermediate cards lasting 10 (labelled
\* warmup), 25 and 30 minutes, suggest_lesson for Intermediate and 60
\* minutes returns the 10-minute card as warm-up, the 25-minute card as the
\* only main activity and a total of 35.
C4_Scenario ==
    ( /\ LessonReturned
      /\ board = SubSeq(CardPool, 1, 3)
      /\ call[1].args.student_level = "Intermediate"
      /\ call[1].args.total_duration = 60 )
    =>
    ( /\ result[1].warmup = Some(Activity(board[1]))
      /\ result[1].main_activities = <<Activity(board[2])>>
      /\ result[1].total_duration = 35 )

\* C5: every record parsed from a card, by the server or by the importer,
\* has a duration above 0.
C5_PositiveDuration ==
    /\ \A k \in DOMAIN board : parseCardData(board[k]).duration > 0
    /\ formatted # Unset => formatted[1].activity.duration > 0

\* C6: every record parsed from a card, by the server or by the importer,
\* has a level of the closed enumeration.
C6_LevelInEnumeration ==
    /\ \A k \in DOMAIN board : parseCardData(board[k]).level \in LevelEnumeration
    /\ formatted # Unset => formatted[1].activity.level \in LevelEnumeration

\* C7: a card whose description has a line "DURATION: N", N a positive
\* integer in plain digits, is parsed by the server to the duration N.
C7_DurationLine ==
    \A k \in DOMAIN board :
        (HasDesc(board[k]) /\ DurationLine(board[k].desc) > 0) =>
            parseCardData(board[k]).duration = DurationLine(board[k].desc)

\* C8: the duration parsed from a card is that of its DURATION line; without
\* one, that of the digits of the title followed by "m" or "min"; without
\* either, 20. This for the server's parser and for the importer's.
C8_ResolutionOrder ==
    /\ \A k \in DOMAIN board : parseCardData(board[k]).duration = ResolvedDuration(board[k])
    /\ formatted # Unset => formatted[1].activity.duration = ResolvedDuration(formatted[1].card)

\* C9: the card the importer creates for an activity is parsed by the
\* server back to the duration and the level of that activity.
C9_RoundTrip ==
    created # Unset =>
        /\ parseCardData(created[1].card).duration = created[1].activity.duration
        /\ parseCardData(created[1].card).level = created[1].activity.level

\* C10: a card with an empty description is parsed, by the server and by the
\* importer, to a record holding the documented defaults: duration 20 (the
\* title naming none), level Intermediate, and category General (the title
\* naming none).
C10_Defaults ==
    /\ \A k \in DOMAIN board :
          (HasDesc(board[k]) /\ board[k].desc = "" /\ TitleMinutes(board[k].name) = 0) =>
              /\ parseCardData(board[k]).duration = DefaultDuration
              /\ parseCardData(board[k]).level = "Intermediate"
              /\ parseCardData(board[k]).category = "General"
    /\ (formatted # Unset /\ formatted[1].card.desc = ""
                          /\ TitleMinutes(formatted[1].card.name) = 0) =>
          /\ formatted[1].activity.duration = DefaultDuration
          /\ formatted[1].activity.level = "Intermediate"
          /\ DetectCategory(formatted[1].card.name) = "General"
                => formatted[1].activity.category = "General"

(***************************************************************************)
(* Properties of the catalog                                               *)
(***************************************************************************)

\* get_activities has returned its activities
ActivitiesReturned == spc = "done" /\ call[1].name = "get_activities"

\* C11: a card whose description is absent is not parsed into a record built
\* from the defaults: no record get_activities returns comes from such a card
\* (the call fails instead).
C11_MalformedRejected ==
    ActivitiesReturned =>
        \A i \in DOMAIN result[1] : "description" \in DOMAIN result[1][i]

\* the arguments of the get_activities calls
FilterArgs == {c.args : c \in {x \in ToolCalls : x.name = "get_activities"}}

\* the activity satisfies every predicate the arguments supply
SatisfiesAll(a, args) ==
    /\ args.category # "" => a.category = args.category
    /\ args.level # "" => a.level = args.level
    /\ args.duration.given => a.duration <= args.duration.val

\* the activities of the sequence that satisfy every supplied predicate
Conjunction(activities, args) ==
    LET Keep(a) == SatisfiesAll(a, args) IN SelectSeq(activities, Keep)

\* the three filters applied in each of the six orders give the one result
OrdersAgree(acts, args) ==
    LET C(x) == byCategory(x, args.category)
        L(x) == byLevel(x, args.level)
        D(x) == maxDuration(x, args.duration)
        r    == D(L(C(acts)))
    IN  /\ D(C(L(acts))) = r
        /\ L(D(C(acts))) = r
        /\ L(C(D(acts))) = r
        /\ C(D(L(acts))) = r
        /\ C(L(D(acts))) = r

\* C12: on every board and for every level, category and bound, the three
\* filters give the same activities in every order, namely exactly the
\* activities that satisfy all the supplied predicates.
C12_CommutativeConjunctive ==
    With(Catalog(board),
         LAMBDA acts :
            \A args \in FilterArgs :
                /\ OrdersAgree(acts, args)
                /\ ApplyFilters(acts, args) = Conjunction(acts, args))

\* C13: the filters of a get_activities call applied to what the call
\* returned, one by one or together, return it unchanged.
C13_Idempotent ==
    ActivitiesReturned =>
        /\ byCategory(result[1], call[1].args.category) = result[1]
        /\ byLevel(result[1], call[1].args.level) = result[1]
        /\ maxDuration(result[1], call[1].args.duration) = result[1]
        /\ ApplyFilters(result[1], call[1].args) = result[1]

\* get_activities has returned, with a bound of 15 minutes, some but not all
\* of the activities of a board on which two activities in a row are longer
C13_Witness ==
    /\ ActivitiesReturned
    /\ call[1].args.duration = Given(15)
    /\ result[1] # <<>>
    /\ \E k \in 1..(Len(board) - 1) :
          /\ parseCardData(board[k]).duration > 15
          /\ parseCardData(board[k + 1]).duration > 15

\* C14: for every supplied bound, 0 included, the duration filter keeps
\* exactly the activities that last no longer than the bound.
C14_MaxDuration ==
    With(Catalog(board),
         LAMBDA acts :
            \A d \in {x \in Durations : x.given} :
                maxDuration(acts, d)
                    = SelectSeq(acts, LAMBDA a : a.duration <= d.val))

(***************************************************************************)
(* Properties of the lesson plan, continued                                *)
(***************************************************************************)

\* the plan includes no activity
PlanEmpty(lesson) ==
    lesson.warmup = Unset /\ lesson.main_activities = <<>> /\ lesson.cooldown = Unset

\* the activities of the cards at the level, and those of them in the category
AtLevel(cards, level) == byLevel(Catalog(cards), level)
InFocus(cards, level, category) == byCategory(AtLevel(cards, level), category)

\* C15: when suggest_lesson returns for a call that names a focus category,
\* the plan is that of the same call without the focus if no activity of the
\* requested level has that category, and it is empty only if that plan is.
C15_FocusFallback ==
    [][ ( /\ spc = "fetch" /\ spc' = "done"
          /\ call[1].name = "suggest_lesson"
          /\ call[1].args.focus_area # "" )
        => With(suggestLesson(board, [call[1].args EXCEPT !.focus_area = ""]),
                LAMBDA plain :
                    /\ InFocus(board, call[1].args.student_level,
                               call[1].args.focus_area) = <<>>
                          => result'[1] = plain
                    /\ PlanEmpty(result'[1]) => PlanEmpty(plain)) ]_vars

\* a plan was returned for a focus category that no activity of the requested
\* level has, and the board holds activities of that level
C15_Witness ==
    /\ LessonReturned
    /\ call[1].args.focus_area = "grammar"
    /\ AtLevel(board, call[1].args.student_level) # <<>>
    /\ InFocus(board, call[1].args.student_level, "grammar") = <<>>

\* the candidates of the specification's first step: the activities of the
\* level, narrowed to the focus category unless that leaves none
Candidates(cards, level, focus) ==
    IF focus # "" /\ InFocus(cards, level, focus) # <<>>
    THEN InFocus(cards, level, focus)
    ELSE AtLevel(cards, level)

RECURSIVE GreedyWalk(_, _)
\* one pass in order: a candidate that fits the remaining budget is accepted
\* and the budget reduced, any other is skipped
GreedyWalk(candidates, budget) ==
    IF candidates = <<>> THEN <<>>
    ELSE IF candidates[1].duration <= budget
         THEN <<candidates[1]>>
              \o GreedyWalk(Tail(candidates), budget - candidates[1].duration)
         ELSE GreedyWalk(Tail(candidates), budget)

\* C20: when suggest_lesson returns, main_activities is the one greedy pass,
\* in board order, over the candidates other than the warm-up and cool-down
\* of the plan, with the budget left after those two.
C20_GreedyWalk ==
    [][ (spc = "fetch" /\ spc' = "done" /\ call[1].name = "suggest_lesson")
        => LET plan   == result'[1]
               chosen == plan.warmup \o plan.cooldown
               rest   == SelectSeq(Candidates(board, call[1].args.student_level,
                                              call[1].args.focus_area),
                                   LAMBDA a : \A k \in DOMAIN chosen : chosen[k] # a)
           IN  plan.main_activities
                   = GreedyWalk(rest, call[1].args.total_duration - SumDurations(chosen))
      ]_vars

\* suggest_lesson returns: the step from the fetch to the plan
LessonReturns == spc = "fetch" /\ spc' = "done" /\ call[1].name = "suggest_lesson"

\* the activities a plan includes, and the candidates it leaves out
PlanMembers(lesson) == lesson.warmup \o lesson.main_activities \o lesson.cooldown
Remaining(candidates, lesson) ==
    SelectSeq(candidates,
              LAMBDA a : \A k \in DOMAIN PlanMembers(lesson) : PlanMembers(lesson)[k] # a)

\* C21: when suggest_lesson returns, every candidate of the requested level
\* that is not in the plan lasts longer than the budget the plan leaves over.
C21_NoneFitsLater ==
    [][ LessonReturns
        => LET plan == result'[1]
               left == call[1].args.total_duration - PlanMinutes(plan)
               rest == Remaining(Candidates(board, call[1].args.student_level,
                                            call[1].args.focus_area), plan)
           IN  \A k \in DOMAIN rest : rest[k].duration > left
      ]_vars

\* the positions of the cards that are candidates, carry the label and last
\* at most 10 minutes
ShortLabelled(cards, candidates, label) ==
    { k \in DOMAIN cards :
        /\ label \in cards[k].labels
        /\ \E i \in DOMAIN candidates : candidates[i] = Activity(cards[k])
        /\ parseCardData(cards[k]).duration <= 10 }

\* C22: when suggest_lesson returns, the warm-up is the first candidate, in
\* board order, that is tagged warmup (the labels of its card) and lasts at
\* most 10 minutes, and is unset when there is none.
C22_FirstWarmup ==
    [][ LessonReturns
        => LET short == ShortLabelled(board,
                                      Candidates(board, call[1].args.student_level,
                                                 call[1].args.focus_area), "warmup")
           IN  IF short = {} THEN result'[1].warmup = Unset
               ELSE result'[1].warmup
                        = Some(Activity(board[CHOOSE k \in short : \A j \in short : k <= j]))
      ]_vars

\* C23: the minutes left to the main activities are the requested duration
\* less the durations of the warm-up and the cool-down of the plan; with
\* neither chosen they are the whole requested duration.
C23_MainBudget ==
    LessonReturned =>
        mainTime(call[1].args.total_duration)
            = call[1].args.total_duration
                - SumDurations(result[1].warmup \o result[1].cooldown)

\* C25: the warm-up, the main activities and the cool-down of a returned
\* plan are pairwise distinct activities.
C25_NoRepeat ==
    LessonReturned =>
        \A i, j \in DOMAIN PlanMembers(result[1]) :
            i # j => PlanMembers(result[1])[i] # PlanMembers(result[1])[j]

\* a plan was returned while the board holds a card of the requested level
\* that lasts at most 10 minutes and is labelled both warmup and cooldown
C25_Witness ==
    /\ LessonReturned
    /\ \E k \in DOMAIN board :
          /\ {"warmup", "cooldown"} \subseteq board[k].labels
          /\ parseCardData(board[k]).level = call[1].args.student_level
          /\ parseCardData(board[k]).duration <= 10

\* C27: a call to a tool that getTools advertises never ends with the
\* TypeError of a method the class does not define.
C27_AdvertisedImplemented ==
    (spc = "done" /\ call[1].name \in getTools) => result[1] # NotAFunction

(***************************************************************************)
(* Properties of concurrent tool calls                                     *)
(***************************************************************************)

\* C16: a step of one tool call changes nothing of another call, a filter
\* step leaves the cards and the activities of its call unchanged, and what
\* it returns is made of the cards its own call fetched.
C16_Isolation ==
    [][ \A q \in Requests :
            reqs'[q] # reqs[q] =>
                /\ \A r \in Requests \ {q} : reqs'[r] = reqs[r]
                /\ (reqs[q].pc = "filter" /\ reqs'[q].pc = "done") =>
                      /\ reqs'[q].cards = reqs[q].cards
                      /\ reqs'[q].activities = reqs[q].activities
                      /\ reqs'[q].filtered
                             = Some(Answer(reqs[q].call[1], Catalog(reqs[q].cards)))
      ]_vars

\* two calls in flight hold the cards of different fetches; one has filtered
\* and the other has parsed
C16_Witness ==
    \E q, r \in Requests :
        /\ reqs[q].pc = "done"
        /\ reqs[r].pc \in {"filter", "done"}
        /\ reqs[q].cards # reqs[r].cards

(***************************************************************************)
(* Properties of the command interpreter                                   *)
(***************************************************************************)

\* the invocation has classified its comment
Classified(d) == events[d].pc \in {"classified", "replied"}

\* C17: the comment "@ai suggest 20-minute grammar activities" is classified
\* SuggestActivities with category Grammar and maxDuration 20 (and no level).
C17_SuggestScenario ==
    \A d \in Deliveries :
        (Classified(d) /\ events[d].text = "@ai suggest 20-minute grammar activities") =>
            events[d].intent[1] = [kind        |-> "SuggestActivities",
                                   level       |-> Unset,
                                   category    |-> Some("Grammar"),
                                   maxDuration |-> Some(20)]

\* that comment has been classified
C17_Witness ==
    \E d \in Deliveries :
        /\ events[d].pc = "classified"
        /\ events[d].text = "@ai suggest 20-minute grammar activities"

\* C18: the comment "@ai build lesson", which names no level, is classified
\* BuildLesson with needsClarification true, and so is any other
\* build-lesson intent without a level.
C18_NeedsClarification ==
    \A d \in Deliveries :
        /\ (Classified(d) /\ events[d].text = "@ai build lesson") =>
              /\ events[d].intent[1].kind = "BuildLesson"
              /\ events[d].intent[1].needsClarification
        /\ (Classified(d) /\ events[d].intent[1].kind = "BuildLesson") =>
              (events[d].intent[1].needsClarification <=> events[d].intent[1].level = Unset)

\* "@ai build lesson" has been classified and answered
C18_Witness ==
    \E d \in Deliveries :
        /\ events[d].pc = "replied"
        /\ events[d].text = "@ai build lesson"

\* the text matches none of the keyword sets of section 4.4
MatchesNoKeywordSet(text) ==
    LET Has(w) == Includes(ToLowerCase(text), w)
    IN  /\ ~(Has("suggest") /\ Has("activit"))
        /\ ~(Has("build") /\ Has("lesson"))
        /\ ~Has("alternative") /\ ~Has("similar")
        /\ ~Has("analyze") /\ ~Has("usage")

KeywordsOf(family) ==
    UNION { categoryKeywords[k][2] : k \in {j \in DOMAIN categoryKeywords :
                                                categoryKeywords[j][1] = family} }
AllKeywords == UNION { categoryKeywords[k][2] : k \in DOMAIN categoryKeywords }
IncludesAny(s, words) == \E w \in words : Includes(s, w)

\* C24: the category parseUnstructuredCard infers from the lowercased title
\* is Grammar when the title includes "tense" or "conditional", Speaking
\* when it includes "negotiation" or "roleplay" (and no Grammar keyword), and
\* General when it includes no keyword of any family.
C24_InferredCategory ==
    formatted # Unset =>
        LET lower    == ToLowerCase(formatted[1].card.name)
            category == formatted[1].activity.category
        IN  /\ IncludesAny(lower, {"tense", "conditional"}) => category = "Grammar"
            /\ ( /\ IncludesAny(lower, {"negotiation", "roleplay"})
                  /\ ~IncludesAny(lower, KeywordsOf("Grammar")) )
                  => category = "Speaking"
            /\ ~IncludesAny(lower, AllKeywords) => category = "General"

\* every card of the board passes the test reformatExistingCards skips on
AllFormatted(cards) ==
    \A k \in DOMAIN cards : ~ReformatThrows(cards[k]) /\ AlreadyFormatted(cards[k])

\* C28: reformatExistingCards never updates a card whose name contains "["
\* and whose description contains "LEVEL:"; when a run has gone through all
\* the cards it fetched, every card of the board passes that test; and a run
\* over a board whose cards all pass it changes no card.
C28_ReformatIdempotent ==
    /\ [][ (ipc = "reformat" /\ board' # board) => ~AlreadyFormatted(snapshot[idx]) ]_vars
    /\ []( (ipc = "reformat" /\ idx > Len(snapshot)) => AllFormatted(board) )
    /\ [][ (ipc' = "reformat" /\ AllFormatted(board)) => board' = board ]_vars

\* a run has gone through the cards without updating any, over a board that
\* holds a handwritten card an earlier run reformatted
C28_Witness ==
    /\ ipc = "reformat" /\ idx > Len(snapshot) /\ formatted = Unset
    /\ \E k \in DOMAIN board, h \in DOMAIN HandwrittenPool :
          /\ board[k].id = HandwrittenPool[h].id
          /\ board[k] # HandwrittenPool[h]
(***************************************************************************)
(* Properties of the web app                                               *)
(***************************************************************************)

\* C29: every row of the activity table has minDuration <= typicalDuration
\* <= maxDuration.
C29_DurationsOrdered ==
    \A a \in db : a.minDuration <= a.typicalDuration /\ a.typicalDuration <= a.maxDuration

\* C30: isSubmitting is true from the start of handleSubmit to its end and
\* false otherwise, and a submission that has started always comes to its
\* end with isSubmitting false, whether the request succeeded, was answered
\* with an error or threw.
C30_SubmittingReleased ==
    /\ [](form.isSubmitting <=> form.pc # "editing")
    /\ [][ (form.pc = "editing" /\ form'.pc # "editing") => form'.isSubmitting ]_vars
    /\ (form.isSubmitting ~> ~form.isSubmitting)

\* handleSubmit is over and the form released after a submission that was
\* answered with an error
C30_Witness ==
    /\ form.pc = "editing" /\ ~form.isSubmitting
    /\ form.response = Some([ok |-> FALSE])
====
